---- MODULE Spec2Model ----
(***************************************************************************)
(* fetch-nuts.py: a one-shot pipeline that fetches an open-data catalog,   *)
(* follows it to the dataset endpoints, flattens the address features into *)
(* a table and writes kraje.csv plus one CSV per known region.             *)
(*                                                                         *)
(* JSON values are tagged records (JNull, JStr, JList, JObj); a JSON       *)
(* number is carried by its lexeme in a JStr.  Non-ASCII letters of the    *)
(* source's string constants are written without diacritics.               *)
(***************************************************************************)
EXTENDS Integers, Sequences, FiniteSets, TLC

VARIABLES
    pc,         \* position of the thread of control
    ret,        \* who called fetch_json_with_retry
    url,        \* fetch_json_with_retry: url
    tries,      \* fetch_json_with_retry: tries
    backoff,    \* fetch_json_with_retry: backoff, a rational [num, den]
    attempt,    \* fetch_json_with_retry: next value of the range(tries) iterator
    resp,       \* fetch_json_with_retry: resp
    last_err,   \* fetch_json_with_retry: last_err
    trace,      \* effects of the running fetch call: GETs, sleeps, [FAIL] line
    r,          \* value returned by the last fetch call (local r of the caller)
    requested,  \* URLs a GET was sent to since the start of the run
    uris,       \* module-level uris
    idx,        \* collect_features: position of the for loop in uris
    features,   \* collect_features: features, then module-level features
    served,     \* per processed URI: what its fetch delivered
    table,      \* module-level table
    df,         \* module-level df
    files,      \* files under data/egov/: name -> content
    printed,    \* names printed by the unmapped-region warning
    kidx,       \* position of the per-region loop in name_to_abb.items()
    fault       \* uncaught exception that ended the run, or "None"

vars == <<pc, ret, url, tries, backoff, attempt, resp, last_err, trace, r,
          requested, uris, idx, features, served, table, df, files, printed,
          kidx, fault>>

fetchVars == <<url, tries, backoff, attempt, resp, last_err, trace>>
collectVars == <<uris, idx, features, served>>
writeVars == <<table, df, files, printed, kidx>>

----------------------------------------------------------------------------
(* JSON values *)

JNull == [t |-> "null"]
JStr(s) == [t |-> "str", s |-> s]
JList(q) == [t |-> "list", q |-> q]
JObj(m) == [t |-> "obj", m |-> m]

\* The empty mapping {}.
EmptyMap == <<>>

\* A response body that is not JSON.
NotJson == [t |-> "notjson"]

\* A name not bound yet.
Unset == [t |-> "unset"]

\* isinstance(v, dict)
IsDict(v) == v.t = "obj"

\* d.get(key, default) on a dict d
DictGet(d, key, default) == IF key \in DOMAIN d.m THEN d.m[key] ELSE default

\* Python truthiness of a JSON value: None, "", [] and {} are falsy.
Truthy(v) ==
    CASE v.t = "null" -> FALSE
      [] v.t = "str" -> v.s # ""
      [] v.t = "list" -> v.q # <<>>
      [] v.t = "obj" -> DOMAIN v.m # {}
      [] OTHER -> TRUE

\* Sequences over S of length at most n.
SeqsUpTo(S, n) == UNION {[1..m -> S] : m \in 0..n}

----------------------------------------------------------------------------
(* Bounds of the model *)

\* Largest tries a stand-alone fetch call is given.
MaxTries == 3
\* Most nodes in a catalog's @graph list.
MaxNodes == 2
\* Most entries in a dcat:dataset list.
MaxDs == 2
\* Every features list of at most this many entries is served (and MixedLists).
MaxFeat == 1
\* Most features handed to create_table by the write stage's specification.
MaxRows == 3

----------------------------------------------------------------------------
(* Program constants *)

URI_root == "https://rageo.minv.sk/opendata/katalog.json"

DefaultTries == 5
DefaultBackoff == [num |-> 3, den |-> 2]
PatientTries == 6
PatientBackoff == [num |-> 17, den |-> 10]

\* Dataset endpoints a catalog may name.
DatasetUrls == {"http://x/1", "http://x/2"}

----------------------------------------------------------------------------
(* What the network can deliver *)

\* properties.get keys of create_table, in the order of the appends.
PropKeys ==
    <<"identifier", "nuts3_name", "nuts3_id", "lau1_name", "lau1_id",
      "lau2_name", "lau2_id", "district_name", "streetname",
      "propertyregistrationnumber", "orientationnumber", "postalcode">>

Feature(props, geom) == JObj("properties" :> props @@ "geometry" :> geom)
Coordinates(q) == JObj("coordinates" :> JList(q))

fBA1 ==
    Feature(JObj("identifier" :> JStr("A1") @@ "nuts3_name" :> JStr("Bratislavsky")),
            Coordinates(<<JStr("17.1"), JStr("48.1")>>))
fBA2 ==
    Feature(JObj("identifier" :> JStr("A2") @@ "nuts3_name" :> JStr("Bratislavsky")
                 @@ "postalcode" :> JNull),
            Coordinates(<<JStr("17.2")>>))
fKE ==
    Feature(JObj("identifier" :> JStr("K1") @@ "nuts3_name" :> JStr("Kosicky")),
            JNull)
fUnmapped == JObj("properties" :> JObj("nuts3_name" :> JStr("Prazsky")))
fBlank ==
    Feature(JObj("nuts3_name" :> JStr(" ")),
            Coordinates(<<JStr("1"), JStr("2"), JStr("3")>>))
fNoProps == JObj(EmptyMap)
fNullProps == JObj("properties" :> JNull @@ "geometry" :> JObj(EmptyMap))

\* Features the write stage is handed directly.
WriteFeatures == {fBA1, fBA2, fKE, fUnmapped, fBlank, fNoProps, fNullProps}

\* Entries of a features list served by a dataset endpoint; the last is not a map.
FeatureEntries == {fBA1, fNoProps, JStr("x")}

\* Two longer features lists, mixing maps and an entry that is not a map.
MixedLists == {<<fBA1, JStr("x"), fNoProps>>, <<fNoProps, fBA1>>}

\* JSON bodies a dataset endpoint can serve: null, an array, an object without
\* features, with null features, with a features list.
DatasetDocs ==
    {JNull, JList(<<>>), JObj(EmptyMap), JObj("features" :> JNull)}
    \cup {JObj("features" :> JList(q)) :
             q \in SeqsUpTo(FeatureEntries, MaxFeat) \cup MixedLists}

IriEntries == {JObj("iri" :> JStr(u)) : u \in DatasetUrls}

\* Nodes of a catalog's @graph list: without a dataset relation, with a null one,
\* with a list of entries.
GraphNodes ==
    {JObj("@type" :> JStr("dcat:Catalog")), JObj("dcat:dataset" :> JNull)}
    \cup {JObj("dcat:dataset" :> JList(q)) : q \in SeqsUpTo(IriEntries, MaxDs)}

\* JSON bodies the catalog endpoint can serve.
CatalogDocs ==
    {JNull, JList(<<>>), JObj(EmptyMap)}
    \cup {JObj("@graph" :> JList(g)) : g \in SeqsUpTo(GraphNodes, MaxNodes)}

Bodies(u) == IF u = URI_root THEN CatalogDocs ELSE DatasetDocs

Response(status, body) == [t |-> "resp", status |-> status, body |-> body]

\* One JSON body an endpoint may send along with an error or a 3xx status.
AnyJson(u) == IF u = URI_root THEN JObj(EmptyMap) ELSE JObj("features" :> JList(<<fBA1>>))

\* Responses s.get can return for a URL.  requests follows redirects, so a 3xx
\* reaches the caller only when it is not a redirect (300 Multiple Choices).
Responses(u) ==
    {Response(200, b) : b \in Bodies(u) \cup {NotJson}}
    \cup {Response(s, b) : s \in {300, 404, 500}, b \in {NotJson, AnyJson(u)}}

----------------------------------------------------------------------------
(* fetch_json_with_retry *)

RECURSIVE Pow(_, _)
Pow(b, n) == IF n = 0 THEN 1 ELSE b * Pow(b, n - 1)

\* Faulty variant of SleepDuration: the exponent is off by one.
SleepDurationNextPower(b, a) == [num |-> Pow(b.num, a + 1), den |-> Pow(b.den, a + 1)]

\* backoff ** attempt
SleepDuration(b, a) == [num |-> Pow(b.num, a), den |-> Pow(b.den, a)]

\* Faulty variant of RaisesForStatus: only server errors raise.
RaisesForServerError(status) == 500 <= status /\ status < 600

\* resp.raise_for_status(): HTTPError for a 4xx or 5xx status.
RaisesForStatus(status) == 400 <= status /\ status < 600

\* resp.json(): ValueError when the body is not JSON.
JsonRaises(body) == body = NotJson

\* The exception the try block ends with once s.get has returned rsp, by the class
\* the except clause catches it as, or "None".
AttemptError(rsp) ==
    IF RaisesForStatus(rsp.status) THEN "RequestException"
    ELSE IF JsonRaises(rsp.body) THEN "ValueError"
    ELSE "None"

\* attempt < tries - 1
AttemptsRemain(a, n) == a < n - 1

EvGet(u) == [e |-> "GET", url |-> u]
EvSleep(d) == [e |-> "sleep", d |-> d]
EvFail(u, n, err) == [e |-> "FAIL", url |-> u, tries |-> n, err |-> err]

\* The call: parameters bound, s and last_err initialised.
FetchCall(u, n, b, from) ==
    /\ url' = u
    /\ tries' = n
    /\ backoff' = b
    /\ attempt' = 0
    /\ resp' = Unset
    /\ last_err' = "None"
    /\ trace' = <<>>
    /\ ret' = from
    /\ pc' = "fetch"

\* The except branch of one iteration.
HandleFailure(err) ==
    /\ last_err' = err
    /\ trace' = trace \o
          (IF AttemptsRemain(attempt, tries)
           THEN <<EvGet(url), EvSleep(SleepDuration(backoff, attempt))>>
           ELSE <<EvGet(url), EvFail(url, tries, err)>>)
    /\ attempt' = attempt + 1
    /\ requested' = requested \cup {url}
    /\ UNCHANGED <<pc, ret, url, tries, backoff, r, fault>>
    /\ UNCHANGED <<collectVars, writeVars>>

\* One iteration whose try block returns resp.json().
AttemptSucceeds ==
    /\ pc = "fetch"
    /\ attempt < tries
    /\ \E rsp \in Responses(url) :
          /\ AttemptError(rsp) = "None"
          /\ resp' = rsp
          /\ r' = rsp.body
    /\ trace' = Append(trace, EvGet(url))
    /\ requested' = requested \cup {url}
    /\ pc' = "fetch_ret"
    /\ UNCHANGED <<ret, url, tries, backoff, attempt, last_err, fault>>
    /\ UNCHANGED <<collectVars, writeVars>>

\* One iteration in which s.get raises a RequestException (no response).
AttemptTransportError ==
    /\ pc = "fetch"
    /\ attempt < tries
    /\ HandleFailure("RequestException")
    /\ UNCHANGED resp

\* One iteration in which raise_for_status or json raises.
AttemptBadResponse ==
    /\ pc = "fetch"
    /\ attempt < tries
    /\ \E rsp \in Responses(url) :
          /\ AttemptError(rsp) # "None"
          /\ resp' = rsp
          /\ HandleFailure(AttemptError(rsp))

\* The loop is exhausted: return None.
FetchExhausted ==
    /\ pc = "fetch"
    /\ attempt >= tries
    /\ r' = JNull
    /\ pc' = "fetch_ret"
    /\ UNCHANGED <<ret, fetchVars, requested, fault>>
    /\ UNCHANGED <<collectVars, writeVars>>

\* A fetch call ended because every iteration failed.
Exhausted == pc = "fetch_ret" /\ attempt >= tries

----------------------------------------------------------------------------
(* parse_dataset *)

\* Every local of a fetch call that has returned is gone.
FetchFrameGone ==
    /\ url' = ""
    /\ tries' = 0
    /\ backoff' = DefaultBackoff
    /\ attempt' = 0
    /\ resp' = Unset
    /\ last_err' = "None"
    /\ trace' = <<>>

\* [o["iri"] for o in ds]
IrisOf(ds) == [j \in 1..Len(ds.q) |-> ds.q[j].m["iri"].s]

\* Faulty variant of DatasetIris: a later node's dataset relation replaces an earlier one's.
RECURSIVE DatasetIrisLast(_)
DatasetIrisLast(graph) ==
    IF graph = <<>> THEN <<>>
    ELSE LET ds == DictGet(graph[Len(graph)], "dcat:dataset", JNull)
         IN  IF ds # JNull THEN IrisOf(ds)
             ELSE DatasetIrisLast(SubSeq(graph, 1, Len(graph) - 1))

\* The for loop over graph: the first node whose dcat:dataset is not None decides.
RECURSIVE DatasetIris(_)
DatasetIris(graph) ==
    IF graph = <<>> THEN <<>>
    ELSE LET ds == DictGet(Head(graph), "dcat:dataset", JNull)
         IN  IF ds # JNull THEN IrisOf(ds) ELSE DatasetIris(Tail(graph))

\* The module's first statements: mkdir, then parse_dataset(URI_root) calls
\* fetch_json_with_retry(uri) with the default policy.
Start ==
    /\ pc = "start"
    /\ FetchCall(URI_root, DefaultTries, DefaultBackoff, "parse_dataset")
    /\ UNCHANGED <<r, requested, fault>>
    /\ UNCHANGED <<collectVars, writeVars>>

\* Faulty variant of ParseDataset: a null-result is read as an empty catalog.
ParseDatasetGuarded ==
    /\ pc = "fetch_ret"
    /\ ret = "parse_dataset"
    /\ uris' = IF IsDict(r) THEN DatasetIris(DictGet(r, "@graph", JList(<<>>)).q) ELSE <<>>
    /\ pc' = "collect_features"
    /\ FetchFrameGone
    /\ UNCHANGED <<ret, r, requested, idx, features, served, fault>>
    /\ UNCHANGED writeVars

\* parse_dataset after the fetch returned: r.get is called on whatever came back.
ParseDataset ==
    /\ pc = "fetch_ret"
    /\ ret = "parse_dataset"
    /\ IF IsDict(r)
       THEN /\ uris' = DatasetIris(DictGet(r, "@graph", JList(<<>>)).q)
            /\ pc' = "collect_features"
            /\ fault' = fault
       ELSE /\ fault' = "AttributeError"
            /\ pc' = "fault"
            /\ uris' = uris
    /\ FetchFrameGone
    /\ UNCHANGED <<ret, r, requested, idx, features, served>>
    /\ UNCHANGED writeVars

----------------------------------------------------------------------------
(* collect_features *)

\* Faulty variant of KeepEntry: every entry is appended.
KeepAnyEntry(f) == TRUE

\* isinstance(f, dict) of the inner loop
KeepEntry(f) == IsDict(f)

\* for f in F: if isinstance(f, dict): features.append(f)
RECURSIVE AppendDicts(_, _)
AppendDicts(acc, F) ==
    IF F = <<>> THEN acc
    ELSE AppendDicts(IF KeepEntry(Head(F)) THEN Append(acc, Head(F)) ELSE acc, Tail(F))

\* What the fetch of one URI delivered, as the loop body tells the cases apart.
Outcome(doc, exhausted) ==
    IF doc = JNull THEN (IF exhausted THEN "failed" ELSE "null")
    ELSE IF ~IsDict(doc) THEN "notamap"
    ELSE IF "features" \notin DOMAIN doc.m THEN "nofeatures"
    ELSE IF doc.m["features"] = JNull THEN "nofeatures"
    ELSE IF doc.m["features"].q = <<>> THEN "empty"
    ELSE "list"

\* The map-typed entries of the features list a document carries.
MapEntries(doc) ==
    IF Outcome(doc, FALSE) = "list"
    THEN SelectSeq(doc.m["features"].q, LAMBDA e : e.t = "obj")
    ELSE <<>>

ServedEntry(u, doc, exhausted) ==
    [uri |-> u, outcome |-> Outcome(doc, exhausted), maps |-> MapEntries(doc)]

\* s = requests.Session(); features = []
CollectStart ==
    /\ pc = "collect_features"
    /\ features' = <<>>
    /\ idx' = 0
    /\ served' = <<>>
    /\ r' = Unset
    /\ pc' = "collect_loop"
    /\ UNCHANGED <<ret, fetchVars, requested, uris, fault>>
    /\ UNCHANGED writeVars

\* The for loop takes the next URI and fetches it with the patient policy.
CollectFetch ==
    /\ pc = "collect_loop"
    /\ idx < Len(uris)
    /\ idx' = idx + 1
    /\ FetchCall(uris[idx + 1], PatientTries, PatientBackoff, "collect_features")
    /\ UNCHANGED <<r, requested, uris, features, served, fault>>
    /\ UNCHANGED writeVars

\* The loop body after the fetch returned.
CollectConsume ==
    /\ pc = "fetch_ret"
    /\ ret = "collect_features"
    /\ served' = Append(served, ServedEntry(url, r, attempt >= tries))
    /\ IF r = JNull
       THEN /\ pc' = "collect_loop"
            /\ UNCHANGED <<features, fault>>
       ELSE IF ~IsDict(r)
       THEN /\ fault' = "AttributeError"
            /\ pc' = "fault"
            /\ UNCHANGED features
       ELSE LET F == DictGet(r, "features", JList(<<>>))
            IN  /\ features' = IF Truthy(F) THEN AppendDicts(features, F.q) ELSE features
                /\ pc' = "collect_loop"
                /\ UNCHANGED fault
    /\ FetchFrameGone
    /\ UNCHANGED <<ret, r, requested, uris, idx>>
    /\ UNCHANGED writeVars

\* return features
CollectReturn ==
    /\ pc = "collect_loop"
    /\ idx >= Len(uris)
    /\ pc' = "create_table"
    /\ UNCHANGED <<ret, fetchVars, r, requested, fault>>
    /\ UNCHANGED <<collectVars, writeVars>>

----------------------------------------------------------------------------
(* create_table *)

\* Keys of the dict create_table returns, in order.
Columns ==
    <<"Identifikator", "Kraj", "ID kraja", "Okres", "ID Okresu", "Obec",
      "ID obce", "Cast obce", "Ulica", "Supisne cislo",
      "Orientacne cislo cele", "PSC", "ADRBOD_X", "ADRBOD_Y">>

ColumnSet == {Columns[j] : j \in 1..Len(Columns)}

\* d.get(key) or {}
GetOrEmptyMap(d, key) ==
    LET v == DictGet(d, key, JNull)
    IN  IF Truthy(v) THEN v ELSE JObj(EmptyMap)

\* geometry.get("coordinates") or []
CoordsOf(feature) ==
    LET v == DictGet(GetOrEmptyMap(feature, "geometry"), "coordinates", JNull)
    IN  IF Truthy(v) THEN v.q ELSE <<>>

\* coords[n] if len(coords) >= 2 else ""
CoordCell(coords, n) == IF Len(coords) >= 2 THEN coords[n + 1] ELSE JStr("")

\* Faulty variant of PropertyCell: get without the "" default.
PropertyCellNoDefault(properties, key) == DictGet(properties, key, JNull)

\* properties.get(key, "")
PropertyCell(properties, key) == DictGet(properties, key, JStr(""))

\* The values one loop iteration appends, by column.
RowCells(feature) ==
    LET properties == GetOrEmptyMap(feature, "properties")
        coords == CoordsOf(feature)
    IN  [c \in ColumnSet |->
            CASE c = "ADRBOD_X" -> CoordCell(coords, 0)
              [] c = "ADRBOD_Y" -> CoordCell(coords, 1)
              [] OTHER ->
                  PropertyCell(properties,
                      PropKeys[CHOOSE j \in 1..Len(PropKeys) : Columns[j] = c])]

\* for feature in features: one append per list
RECURSIVE CreateTableLoop(_, _)
CreateTableLoop(fs, lists) ==
    IF fs = <<>> THEN lists
    ELSE LET cells == RowCells(Head(fs))
         IN  CreateTableLoop(Tail(fs),
                 [c \in ColumnSet |-> Append(lists[c], cells[c])])

create_table(fs) == CreateTableLoop(fs, [c \in ColumnSet |-> <<>>])

\* table = create_table(features)
CreateTable ==
    /\ pc = "create_table"
    /\ table' = create_table(features)
    /\ pc' = "sort"
    /\ UNCHANGED <<ret, fetchVars, r, requested, fault>>
    /\ UNCHANGED <<collectVars, df, files, printed, kidx>>

----------------------------------------------------------------------------
(* Sorting, validation and the output files *)

\* name_to_abb.items(), in insertion order
name_to_abb ==
    << <<"Banskobystricky", "BBSK">>, <<"Bratislavsky", "BSK">>,
       <<"Nitriansky", "NSK">>, <<"Kosicky", "KSK">>, <<"Presovsky", "PSK">>,
       <<"Trenciansky", "TSK">>, <<"Trnavsky", "TTSK">>, <<"Zilinsky", "ZSK">> >>

\* set(name_to_abb.keys())
known == {name_to_abb[j][1] : j \in 1..Len(name_to_abb)}

\* The strings that occur as region names, in Python's str order (by code point).
StrOrder ==
    <<"", " ", "Banskobystricky", "Bratislavsky", "Kosicky", "Nitriansky",
      "Prazsky", "Presovsky", "Trenciansky", "Trnavsky", "Zilinsky">>

StrRank(s) == CHOOSE j \in 1..Len(StrOrder) : StrOrder[j] = s

\* a <= b on str
StrLeq(a, b) == StrRank(a) <= StrRank(b)

\* Faulty variant of IsBlank: the comparison without the strip.
IsEmptyStr(s) == s = ""

\* str(k).strip() == ""
IsBlank(s) == s \in {"", " "}

\* pd.DataFrame(table): row i of the columns, labelled i by the default RangeIndex.
DataFrame(t) ==
    [i \in 1..Len(t["Kraj"]) |->
        [label |-> i - 1, c |-> [col \in ColumnSet |-> t[col][i]]]]

KrajOf(row) == row.c["Kraj"].s

\* Faulty variant of InsertStable: x goes before the rows with an equal key.
InsertBeforeEqual(sorted, x) ==
    LET n == Cardinality({i \in 1..Len(sorted) :
                             StrRank(KrajOf(sorted[i])) < StrRank(KrajOf(x))})
    IN  SubSeq(sorted, 1, n) \o <<x>> \o SubSeq(sorted, n + 1, Len(sorted))

\* Where a stable sort puts x among the already sorted rows: after every row
\* whose key is not greater.
InsertStable(sorted, x) ==
    LET n == Cardinality({i \in 1..Len(sorted) : StrLeq(KrajOf(sorted[i]), KrajOf(x))})
    IN  SubSeq(sorted, 1, n) \o <<x>> \o SubSeq(sorted, n + 1, Len(sorted))

RECURSIVE SortLoop(_, _)
SortLoop(sorted, rest) ==
    IF rest = <<>> THEN sorted
    ELSE SortLoop(InsertStable(sorted, Head(rest)), Tail(rest))

\* df.sort_values("Kraj", kind="stable")
SortValuesByKraj(d) == SortLoop(<<>>, d)

\* The text to_csv writes for a cell: nothing for None, the value otherwise.
CsvText(cell) == IF cell = JNull THEN "" ELSE cell.s

\* d.to_csv(path, index=False): the header, then one line per row, labels left out.
ToCsv(d) ==
    [header |-> Columns,
     rows |-> [i \in 1..Len(d) |-> [col \in ColumnSet |-> CsvText(d[i].c[col])]]]

\* {k for k in df["Kraj"].dropna().unique() if str(k).strip() != ""}
SeenNames(d) ==
    {KrajOf(d[i]) : i \in {j \in 1..Len(d) : d[j].c["Kraj"] # JNull /\ ~IsBlank(KrajOf(d[j]))}}

\* sorted(S) for a set of strings
RECURSIVE SortedStrs(_)
SortedStrs(S) ==
    IF S = {} THEN <<>>
    ELSE LET m == CHOOSE x \in S : \A y \in S : StrLeq(x, y)
         IN  <<m>> \o SortedStrs(S \ {m})

\* sorted(seen - known)
MissingNames(d) == SortedStrs(SeenNames(d) \ known)

\* Faulty variant of RegionRows: only the first matching row is kept.
RegionRowsHead(d, kraj) ==
    LET m == SelectSeq(d, LAMBDA row : row.c["Kraj"] = JStr(kraj))
    IN  IF m = <<>> THEN m ELSE <<Head(m)>>

\* df[df["Kraj"] == kraj]
RegionRows(d, kraj) == SelectSeq(d, LAMBDA row : row.c["Kraj"] = JStr(kraj))

\* Faulty variant of ShouldWrite: the empty subset is written too.
ShouldWriteAlways(df_k) == TRUE

\* not df_k.empty
ShouldWrite(df_k) == df_k # <<>>

\* df = pd.DataFrame(table); df = df.sort_values("Kraj", kind="stable")
SortByKraj ==
    /\ pc = "sort"
    /\ df' = SortValuesByKraj(DataFrame(table))
    /\ pc' = "save_kraje"
    /\ UNCHANGED <<ret, fetchVars, r, requested, fault>>
    /\ UNCHANGED <<collectVars, table, files, printed, kidx>>

\* df.to_csv(dest_root + "kraje.csv", index=False)
SaveKraje ==
    /\ pc = "save_kraje"
    /\ files' = ("kraje.csv" :> ToCsv(df)) @@ files
    /\ pc' = "validate"
    /\ UNCHANGED <<ret, fetchVars, r, requested, fault>>
    /\ UNCHANGED <<collectVars, table, df, printed, kidx>>

\* known, seen, missing and the warning lines
ValidateRegions ==
    /\ pc = "validate"
    /\ printed' = MissingNames(df)
    /\ kidx' = 0
    /\ pc' = "regions"
    /\ UNCHANGED <<ret, fetchVars, r, requested, fault>>
    /\ UNCHANGED <<collectVars, table, df, files>>

\* One iteration of: for kraj, abb in name_to_abb.items()
RegionStep ==
    /\ pc = "regions"
    /\ kidx < Len(name_to_abb)
    /\ LET kraj == name_to_abb[kidx + 1][1]
           abb == name_to_abb[kidx + 1][2]
           df_k == RegionRows(df, kraj)
       IN  files' = IF ShouldWrite(df_k)
                    THEN (abb \o ".csv" :> ToCsv(df_k)) @@ files
                    ELSE files
    /\ kidx' = kidx + 1
    /\ UNCHANGED <<pc, ret, fetchVars, r, requested, fault>>
    /\ UNCHANGED <<collectVars, table, df, printed>>

\* The loop is over and the script ends.
Finish ==
    /\ pc = "regions"
    /\ kidx >= Len(name_to_abb)
    /\ pc' = "done"
    /\ UNCHANGED <<ret, fetchVars, r, requested, fault>>
    /\ UNCHANGED <<collectVars, writeVars>>

----------------------------------------------------------------------------
(* The whole run *)

Init ==
    /\ pc = "start"
    /\ ret = "none"
    /\ url = ""
    /\ tries = 0
    /\ backoff = DefaultBackoff
    /\ attempt = 0
    /\ resp = Unset
    /\ last_err = "None"
    /\ trace = <<>>
    /\ r = Unset
    /\ requested = {}
    /\ uris = <<>>
    /\ idx = 0
    /\ features = <<>>
    /\ served = <<>>
    /\ table = Unset
    /\ df = <<>>
    /\ files = <<>>
    /\ printed = <<>>
    /\ kidx = 0
    /\ fault = "None"

Next ==
    \/ Start
    \/ AttemptSucceeds
    \/ AttemptTransportError
    \/ AttemptBadResponse
    \/ FetchExhausted
    \/ ParseDataset
    \/ CollectStart
    \/ CollectFetch
    \/ CollectConsume
    \/ CollectReturn
    \/ CreateTable
    \/ SortByKraj
    \/ SaveKraje
    \/ ValidateRegions
    \/ RegionStep
    \/ Finish

Spec == Init /\ [][Next]_vars

----------------------------------------------------------------------------
(* The write stage alone, over every short list of features *)

InitWrite ==
    /\ pc = "create_table"
    /\ ret = "collect_features"
    /\ url = ""
    /\ tries = 0
    /\ backoff = DefaultBackoff
    /\ attempt = 0
    /\ resp = Unset
    /\ last_err = "None"
    /\ trace = <<>>
    /\ r = Unset
    /\ requested = {URI_root}
    /\ uris = <<>>
    /\ idx = 0
    /\ features \in SeqsUpTo(WriteFeatures, MaxRows)
    /\ served = <<>>
    /\ table = Unset
    /\ df = <<>>
    /\ files = <<>>
    /\ printed = <<>>
    /\ kidx = 0
    /\ fault = "None"

NextWrite ==
    \/ CreateTable
    \/ SortByKraj
    \/ SaveKraje
    \/ ValidateRegions
    \/ RegionStep
    \/ Finish

SpecWrite == InitWrite /\ [][NextWrite]_vars

----------------------------------------------------------------------------
(* The fetcher alone, under every policy *)

Backoffs == {DefaultBackoff, PatientBackoff, [num |-> 2, den |-> 1]}

InitFetch ==
    /\ pc = "fetch"
    /\ ret = "caller"
    /\ url \in DatasetUrls
    /\ tries \in 0..MaxTries
    /\ backoff \in Backoffs
    /\ attempt = 0
    /\ resp = Unset
    /\ last_err = "None"
    /\ trace = <<>>
    /\ r = Unset
    /\ requested = {}
    /\ uris = <<>>
    /\ idx = 0
    /\ features = <<>>
    /\ served = <<>>
    /\ table = Unset
    /\ df = <<>>
    /\ files = <<>>
    /\ printed = <<>>
    /\ kidx = 0
    /\ fault = "None"

NextFetch ==
    \/ AttemptSucceeds
    \/ AttemptTransportError
    \/ AttemptBadResponse
    \/ FetchExhausted

SpecFetch == InitFetch /\ [][NextFetch]_vars

----------------------------------------------------------------------------
(* Claims about the fetcher, checked under SpecFetch *)

C2_AsStated ==
    /\ (pc = "fetch_ret" /\ attempt < tries) =>
          /\ resp.t = "resp"
          /\ 200 <= resp.status /\ resp.status < 300
          /\ resp.body # NotJson
    /\ (Exhausted /\ tries >= 1) =>
          /\ r = JNull
          /\ fault = "None"
          /\ Cardinality({j \in 1..Len(trace) : trace[j].e = "FAIL"}) = 1
    /\ (pc = "fetch" /\ attempt < tries) =>
          \A j \in 1..Len(trace) : trace[j].e # "FAIL"

\* C2, amended: an attempt whose response has a 4xx or 5xx status, or a body that
\* is not JSON, is a failed attempt, so a call returns a value only from a
\* response with neither (and returns that body); an exhausted call returns the
\* null-result, raises nothing and has printed the diagnostic (URL, tries, last
\* error) exactly once, as its last effect and on no earlier attempt.
C2_FailureHandling ==
    /\ (pc = "fetch_ret" /\ attempt < tries) =>
          /\ resp.t = "resp"
          /\ ~(400 <= resp.status /\ resp.status < 600)
          /\ resp.body # NotJson
          /\ r = resp.body
    /\ (Exhausted /\ tries >= 1) =>
          /\ r = JNull
          /\ fault = "None"
          /\ Cardinality({j \in 1..Len(trace) : trace[j].e = "FAIL"}) = 1
          /\ trace[Len(trace)] =
                 [e |-> "FAIL", url |-> url, tries |-> tries, err |-> last_err]
          /\ last_err # "None"
    /\ (pc = "fetch" /\ attempt < tries) =>
          \A j \in 1..Len(trace) : trace[j].e # "FAIL"
    /\ (pc \in {"fetch", "fetch_ret"}) => fault = "None"

\* A call exhausted by a 500 that carried a JSON body.
C2_Witness ==
    /\ Exhausted
    /\ tries = 3
    /\ resp.t = "resp"
    /\ resp.status = 500
    /\ resp.body # NotJson
    /\ trace[Len(trace)].e = "FAIL"

----------------------------------------------------------------------------
(* Claims about the run, checked under Spec *)

\* C3: collect_features processes the URIs in list order whatever the earlier
\* ones delivered (retries exhausted, null, no features, an empty list, a list
\* with entries that are not maps); the features are the concatenation, in URI
\* order and then document order, of the map-typed entries of the lists
\* delivered; it returns only after every URI was processed, and only a
\* document that is no map at all can end it with a fault.
C3_CollectNeverFatal ==
    LET concat[n \in 0..Len(served)] ==
            IF n = 0 THEN <<>> ELSE concat[n - 1] \o served[n].maps
    IN  /\ Len(served) <= Len(uris)
        /\ \A i \in 1..Len(served) : served[i].uri = uris[i]
        /\ features = concat[Len(served)]
        /\ \A i \in 1..Len(served) :
              served[i].outcome \in {"failed", "null", "nofeatures", "empty"}
                  => served[i].maps = <<>>
        /\ pc = "collect_loop" => Len(served) = idx
        /\ pc \in {"create_table", "sort", "save_kraje", "validate", "regions", "done"}
              => Len(served) = Len(uris)
        /\ (pc = "fault" /\ ret = "collect_features") =>
              /\ fault = "AttributeError"
              /\ served[Len(served)].outcome = "notamap"
              /\ \A i \in 1..(Len(served) - 1) : served[i].outcome # "notamap"

\* Two URIs: the first fails on all six tries, the second delivers a list whose
\* middle entry is not a map.
C3_Witness ==
    /\ pc = "create_table"
    /\ Len(served) = 2
    /\ served[1].outcome = "failed"
    /\ served[2].outcome = "list"
    /\ r = JObj("features" :> JList(<<fBA1, JStr("x"), fNoProps>>))
    /\ features = <<fBA1, fNoProps>>

\* C4: when the fetch of the catalog root returns the null-result the run ends in
\* a fault: no dataset endpoint is ever requested, no file is written and the
\* run never goes on with an empty catalog.
C4_CatalogFailureFatal ==
    /\ (ret = "parse_dataset" /\ r = JNull /\ pc # "fetch_ret") =>
          /\ pc = "fault"
          /\ fault = "AttributeError"
    /\ (pc = "fault" /\ ret = "parse_dataset") =>
          /\ requested = {URI_root}
          /\ DOMAIN files = {}
          /\ uris = <<>>
          /\ features = <<>>

\* The catalog fetch gave the null-result and the run has stopped.
C4_Witness ==
    /\ pc = "fault"
    /\ fault = "AttributeError"
    /\ ret = "parse_dataset"
    /\ r = JNull
    /\ requested = {URI_root}
    /\ DOMAIN files = {}

\* C6: given a fetched catalog document, parse_dataset returns the iri of each
\* entry, in order, of the dataset relation of the first graph node that has
\* one; later nodes are ignored; without such a node, or without a graph list,
\* it returns the empty sequence.
C6_FirstDatasetRelation ==
    (pc = "collect_features") =>
        LET graph == IF "@graph" \in DOMAIN r.m THEN r.m["@graph"].q ELSE <<>>
            has(i) == /\ "dcat:dataset" \in DOMAIN graph[i].m
                      /\ graph[i].m["dcat:dataset"].t = "list"
            hits == {i \in 1..Len(graph) : has(i)}
        IN  IF hits = {} THEN uris = <<>>
            ELSE LET first == CHOOSE i \in hits : \A j \in hits : i <= j
                     ds == graph[first].m["dcat:dataset"].q
                 IN  /\ Len(uris) = Len(ds)
                     /\ \A j \in 1..Len(ds) : uris[j] = ds[j].m["iri"].s

\* Two nodes with a dataset relation each: the first one's two entries are
\* returned in order, the second one's entry is not.
C6_Witness ==
    /\ pc = "collect_features"
    /\ r = JObj("@graph" :> JList(<<
             JObj("dcat:dataset" :> JList(<<JObj("iri" :> JStr("http://x/2")),
                                            JObj("iri" :> JStr("http://x/1"))>>)),
             JObj("dcat:dataset" :> JList(<<JObj("iri" :> JStr("http://x/1"))>>))>>))
    /\ uris = <<"http://x/2", "http://x/1">>

----------------------------------------------------------------------------
(* Claims about the table and the files, checked under SpecWrite *)

\* Row i of the flattened table, as the text of its cells.
TableRow(i) == [col \in ColumnSet |-> CsvText(table[col][i])]

\* The rows of the flattened table, in feature order.
TableRows == [i \in 1..Len(features) |-> TableRow(i)]

\* How often x occurs in the sequence q.
Occurrences(q, x) == Cardinality({i \in 1..Len(q) : q[i] = x})

\* The per-region files written so far.
RegionFiles == DOMAIN files \ {"kraje.csv"}

\* The file name of the j-th entry of the region mapping.
RegionFile(j) == name_to_abb[j][2] \o ".csv"

\* C10: create_table never faults; the table has the 14 columns, each as long as
\* the feature list; row i is feature i; a property the feature lacks (no such
\* key, or no properties mapping at all) gives the empty string, never null.
C10_CreateTableTotal ==
    (pc \in {"sort", "save_kraje", "validate", "regions", "done"}) =>
        /\ fault = "None"
        /\ DOMAIN table = {Columns[j] : j \in 1..14}
        /\ \A c \in DOMAIN table : Len(table[c]) = Len(features)
        /\ \A i \in 1..Len(features) : \A j \in 1..12 :
              LET f == features[i]
                  has == /\ "properties" \in DOMAIN f.m
                         /\ f.m["properties"].t = "obj"
                         /\ PropKeys[j] \in DOMAIN f.m["properties"].m
              IN  IF has
                  THEN table[Columns[j]][i] = f.m["properties"].m[PropKeys[j]]
                  ELSE table[Columns[j]][i] = [t |-> "str", s |-> ""]

\* A feature with a null properties mapping, then one with a null postal code:
\* the first gives "" in every property column, the second keeps its null.
C10_Witness ==
    /\ pc = "sort"
    /\ features = <<fNullProps, fBA2>>
    /\ table["Kraj"] = <<JStr(""), JStr("Bratislavsky")>>
    /\ table["PSC"] = <<JStr(""), JNull>>
    /\ table["Identifikator"] = <<JStr(""), JStr("A2")>>
    /\ table["ADRBOD_X"] = <<JStr(""), JStr("")>>

\* C9: kraje.csv holds the rows of the flattened table stable-sorted by Kraj: as
\* many rows as the table, region names non-decreasing, and for every region
\* name the rows with that name are the table's, in the table's order; every
\* per-region file keeps that order too.
C9_StableSortedAggregate ==
    ("kraje.csv" \in DOMAIN files) =>
        LET rows == files["kraje.csv"].rows
            named(q, name) == SelectSeq(q, LAMBDA x : x["Kraj"] = name)
        IN  /\ Len(rows) = Len(TableRows)
            /\ \A i \in 1..Len(rows) : \A j \in i..Len(rows) :
                  StrRank(rows[i]["Kraj"]) <= StrRank(rows[j]["Kraj"])
            /\ \A i \in 1..Len(TableRows) :
                  named(rows, TableRows[i]["Kraj"]) = named(TableRows, TableRows[i]["Kraj"])
            /\ \A j \in 1..Len(name_to_abb) :
                  RegionFile(j) \in DOMAIN files =>
                      files[RegionFile(j)].rows = named(TableRows, name_to_abb[j][1])

\* Kosicky first in the table, then two Bratislavsky rows: the file has A2, A1, K1.
C9_Witness ==
    /\ pc = "done"
    /\ features = <<fKE, fBA2, fBA1>>
    /\ [i \in 1..3 |-> files["kraje.csv"].rows[i]["Identifikator"]] = <<"A2", "A1", "K1">>
    /\ [i \in 1..2 |-> files["BSK.csv"].rows[i]["Identifikator"]] = <<"A2", "A1">>

\* C5: after the write stage every row of the table is in kraje.csv (as often as
\* in the table), whatever its region name; a row whose region name is a key of
\* the mapping is in the file of that key's code, and in no other per-region file.
C5_PartitionComplete ==
    (pc = "done") =>
        /\ \A i \in 1..Len(TableRows) :
              Occurrences(files["kraje.csv"].rows, TableRows[i])
                  = Occurrences(TableRows, TableRows[i])
        /\ \A i \in 1..Len(TableRows) : \A j \in 1..Len(name_to_abb) :
              TableRows[i]["Kraj"] = name_to_abb[j][1] =>
                  /\ RegionFile(j) \in DOMAIN files
                  /\ Occurrences(files[RegionFile(j)].rows, TableRows[i])
                         = Occurrences(TableRows, TableRows[i])
                  /\ \A f \in RegionFiles \ {RegionFile(j)} :
                         Occurrences(files[f].rows, TableRows[i]) = 0

\* A row without region name, then one row each of two regions: all three are
\* in kraje.csv, the second only in BSK.csv, the third only in KSK.csv.
C5_Witness ==
    /\ pc = "done"
    /\ features = <<fNoProps, fBA1, fKE>>
    /\ DOMAIN files = {"kraje.csv", "BSK.csv", "KSK.csv"}
    /\ Len(files["kraje.csv"].rows) = 3
    /\ files["BSK.csv"].rows = <<TableRows[2]>>
    /\ files["KSK.csv"].rows = <<TableRows[3]>>

\* C8: for each (name, code) of the mapping, <code>.csv exists after the run iff
\* some row has region name `name`, and then holds exactly the rows with that
\* name; an absent region gives no file and no fault; kraje.csv is written
\* whenever the write stage is reached, also for an empty table; nothing else is
\* written.
C8_RegionFilesIffRows ==
    /\ (pc \in {"validate", "regions", "done"}) => "kraje.csv" \in DOMAIN files
    /\ RegionFiles \subseteq {RegionFile(j) : j \in 1..Len(name_to_abb)}
    /\ \A j \in 1..Len(name_to_abb) :
          RegionFile(j) \in DOMAIN files =>
              /\ files[RegionFile(j)].rows # <<>>
              /\ \A i \in 1..Len(files[RegionFile(j)].rows) :
                    files[RegionFile(j)].rows[i]["Kraj"] = name_to_abb[j][1]
    /\ (pc = "done") =>
          /\ fault = "None"
          /\ \A j \in 1..Len(name_to_abb) :
                LET with == {i \in 1..Len(TableRows) : TableRows[i]["Kraj"] = name_to_abb[j][1]}
                IN  /\ RegionFile(j) \in DOMAIN files <=> with # {}
                    /\ RegionFile(j) \in DOMAIN files =>
                          /\ Len(files[RegionFile(j)].rows) = Cardinality(with)
                          /\ \A i \in with :
                                Occurrences(files[RegionFile(j)].rows, TableRows[i])
                                    = Occurrences(TableRows, TableRows[i])

\* An empty table: kraje.csv is written with its header and no row, and no
\* per-region file is.
C8_Witness ==
    /\ pc = "done"
    /\ features = <<>>
    /\ DOMAIN files = {"kraje.csv"}
    /\ files["kraje.csv"].header = Columns
    /\ files["kraje.csv"].rows = <<>>

\* C7 as stated: the names printed are the distinct non-empty region names of the
\* data that are no key of the mapping; the run goes on to the per-region loop;
\* rows with an unmapped name are in kraje.csv and in no per-region file.
C7_AsStated ==
    (pc = "done") =>
        /\ {printed[j] : j \in 1..Len(printed)}
               = {TableRows[i]["Kraj"] : i \in 1..Len(TableRows)} \ ({""} \cup known)
        /\ kidx = Len(name_to_abb)
        /\ \A i \in 1..Len(TableRows) :
              TableRows[i]["Kraj"] \notin known =>
                  /\ Occurrences(files["kraje.csv"].rows, TableRows[i]) > 0
                  /\ \A f \in RegionFiles : Occurrences(files[f].rows, TableRows[i]) = 0

\* C7, amended: the names printed are the distinct region names of the data that
\* are not blank (not empty once surrounding whitespace is stripped) and are no
\* key of the mapping, each printed once; the warning does not abort the run
\* (the per-region loop runs through all 8 entries); rows with an unmapped
\* name are in kraje.csv and in no per-region file.
C7_UnmappedWarning ==
    /\ (pc \in {"regions", "done"}) =>
          /\ {printed[j] : j \in 1..Len(printed)}
                 = {TableRows[i]["Kraj"] : i \in 1..Len(TableRows)} \ ({"", " "} \cup known)
          /\ \A i \in 1..Len(printed) : \A j \in 1..Len(printed) :
                i < j => printed[i] # printed[j]
          /\ fault = "None"
    /\ (pc = "done") =>
          /\ kidx = Len(name_to_abb)
          /\ \A i \in 1..Len(TableRows) :
                TableRows[i]["Kraj"] \notin known =>
                    /\ Occurrences(files["kraje.csv"].rows, TableRows[i]) > 0
                    /\ \A f \in RegionFiles : Occurrences(files[f].rows, TableRows[i]) = 0

\* An unmapped name, a blank name and a mapped one: only the unmapped name is
\* printed and only the mapped row gets a per-region file.
C7_Witness ==
    /\ pc = "done"
    /\ features = <<fUnmapped, fBlank, fBA1>>
    /\ printed = <<"Prazsky">>
    /\ DOMAIN files = {"kraje.csv", "BSK.csv"}
    /\ Len(files["kraje.csv"].rows) = 3
    /\ Len(files["BSK.csv"].rows) = 1

====
